---------------------------- MODULE Spec2Model ----------------------------
(***************************************************************************)
(* A model of the TR-55 implementation: the lookup layer                   *)
(* (tr55/tablelookup.py) and the simulation layer (tr55/model.py).         *)
(*                                                                         *)
(* The library is a set of pure functions.  Every function is an operator  *)
(* here, computed the way its code computes it; one call is one step of    *)
(* the state machine: Init draws a call (function and arguments) from      *)
(* bounded sets and the function's action stores the call's outcome.       *)
(*                                                                         *)
(* Conventions                                                             *)
(*  - a Python string is a sequence of atoms, so 'a:Water' is              *)
(*    <<"a", ":", "Water">> and the land use 'Water' is <<"Water">>;       *)
(*  - a Python float is an exact rational <<n, d>>, d > 0, in lowest       *)
(*    terms (rounding of IEEE doubles is outside this model);              *)
(*  - a dict is a function, its keys the function's DOMAIN;                *)
(*  - an outcome is a record: ok = TRUE with the returned value val, or    *)
(*    ok = FALSE with the raised exception err; calls lists the functions  *)
(*    that were entered while the call ran, in order.                      *)
(***************************************************************************)
EXTENDS Integers, Sequences, FiniteSets, TLC

VARIABLES pc, call, outcome

vars == <<pc, call, outcome>>

-----------------------------------------------------------------------------
(* Bounds of the model.                                                    *)

\* precipitation and evapotranspiration inputs are k / PDen inches
PDen == 2
\* precipitation inputs go up to MaxPNum / PDen inches
MaxPNum == 6
\* evapotranspiration inputs go up to MaxETNum / PDen inches
MaxETNum == 4
\* the sample-year dates tried are the days 0 .. MaxDay
MaxDay == 4
\* small cell counts of a census: 0 .. MaxCount (60, 40 and 100 are added)
MaxCount == 2

-----------------------------------------------------------------------------
(* Exact rational arithmetic, standing for Python's float arithmetic.      *)

Abs(x) == IF x < 0 THEN -x ELSE x

RECURSIVE Gcd(_, _)
Gcd(a, b) == IF b = 0 THEN a ELSE Gcd(b, a % b)

\* the rational n / d (d # 0) in lowest terms with a positive denominator
Rat(n, d) ==
    LET g == Gcd(Abs(n), Abs(d))
        s == IF d < 0 THEN -1 ELSE 1
    IN  <<(s * n) \div g, (s * d) \div g>>

Zero == Rat(0, 1)
RAdd(x, y) == Rat(x[1] * y[2] + y[1] * x[2], x[2] * y[2])
RSub(x, y) == Rat(x[1] * y[2] - y[1] * x[2], x[2] * y[2])
RMul(x, y) == Rat(x[1] * y[1], x[2] * y[2])
RLe(x, y) == x[1] * y[2] <= y[1] * x[2]
RLt(x, y) == x[1] * y[2] < y[1] * x[2]
\* Python's min(x, y) and max(x, y): the first argument wins a tie
RMin(x, y) == IF RLt(y, x) THEN y ELSE x
RMax(x, y) == IF RLt(x, y) THEN y ELSE x

-----------------------------------------------------------------------------
(* Outcomes of a call.                                                     *)

Return(v, c) == [ok |-> TRUE, val |-> v, calls |-> c]
Raise(type, msg, c) == [ok |-> FALSE, err |-> [type |-> type, msg |-> msg], calls |-> c]

\* 'template %s' % arg
Fmt(template, arg) == <<template>> \o arg

\* Python's float division x / y: division by zero raises ZeroDivisionError
FloatDiv(x, y) ==
    IF y[1] = 0 THEN Raise("ZeroDivisionError", <<"float division by zero">>, <<>>)
    ELSE Return(Rat(x[1] * y[2], x[2] * y[1]), <<>>)

-----------------------------------------------------------------------------
(* The reference tables of tr55/tables.py.  The lookup layer reads them    *)
(* only through membership tests and indexing; their contents follow the   *)
(* description of the reference data: land uses with an NLCD class, an     *)
(* evapotranspiration coefficient ki and curve numbers per soil type, and  *)
(* BMPs with a coefficient and an infiltration amount per soil type.       *)

Str(atom) == <<atom>>

PerSoil(a, b, c, d) ==
    (Str("a") :> a) @@ (Str("b") :> b) @@ (Str("c") :> c) @@ (Str("d") :> d)

\* the row 'BarrenLand' carries the degenerate curve number 0 on soil a
LAND_USE_VALUES ==
    (Str("Water") :>
        [nlcd |-> 11, ki |-> Rat(3, 5), cn |-> PerSoil(100, 100, 100, 100)]) @@
    (Str("WoodyWetland") :>
        [nlcd |-> 90, ki |-> Rat(1, 1), cn |-> PerSoil(50, 80, 80, 100)]) @@
    (Str("HerbaceousWetland") :>
        [nlcd |-> 95, ki |-> Rat(1, 1), cn |-> PerSoil(40, 80, 80, 100)]) @@
    (Str("MixedForest") :>
        [nlcd |-> 43, ki |-> Rat(7, 10), cn |-> PerSoil(25, 50, 50, 80)]) @@
    (Str("Pasture") :>
        [nlcd |-> 81, ki |-> Rat(3, 5), cn |-> PerSoil(40, 50, 80, 80)]) @@
    (Str("BarrenLand") :>
        [nlcd |-> 31, ki |-> Rat(3, 10), cn |-> PerSoil(0, 80, 80, 100)]) @@
    (Str("UrbanGrass") :>
        [nlcd |-> 21, ki |-> Rat(4, 5), cn |-> PerSoil(40, 50, 80, 80)]) @@
    (Str("LI_Residential") :>
        [nlcd |-> 22, ki |-> Rat(2, 5), cn |-> PerSoil(50, 80, 80, 80)]) @@
    (Str("HI_Residential") :>
        [nlcd |-> 23, ki |-> Rat(1, 5), cn |-> PerSoil(80, 80, 100, 100)]) @@
    (Str("Commercial") :>
        [nlcd |-> 24, ki |-> Rat(1, 10), cn |-> PerSoil(80, 100, 100, 100)]) @@
    (Str("Industrial") :>
        [nlcd |-> 24, ki |-> Rat(1, 10), cn |-> PerSoil(80, 100, 100, 100)]) @@
    (Str("Transportation") :>
        [nlcd |-> 24, ki |-> Rat(1, 10), cn |-> PerSoil(100, 100, 100, 100)]) @@
    (Str("GreenRoof") :>
        [ki |-> Rat(2, 5),
         infiltration |-> PerSoil(Rat(3, 2), Rat(3, 2), Rat(3, 2), Rat(3, 2))]) @@
    (Str("RainGarden") :>
        [ki |-> Rat(1, 10),
         infiltration |-> PerSoil(Rat(1, 1), Rat(1, 2), Rat(1, 4), Rat(0, 1))])

\* the land uses that are best management practices
BMPS == {Str("GreenRoof"), Str("RainGarden")}

\* the "built" land uses
BUILT_TYPES ==
    {Str("Water"), Str("LI_Residential"), Str("HI_Residential"),
     Str("Commercial"), Str("Industrial"), Str("Transportation")}

\* the land uses that the pre-Columbian projection replaces
NON_NATURAL ==
    BMPS \cup (BUILT_TYPES \ {Str("Water")}) \cup {Str("Pasture"), Str("UrbanGrass")}

\* the sample year: run-length encoded (consecutive days, precipitation)
SAMPLE_YEAR ==
    << [days |-> 2, p |-> Rat(0, 1)],
       [days |-> 1, p |-> Rat(1, 2)],
       [days |-> 1, p |-> Rat(5, 2)] >>

\* first and last day (inclusive) of the growing season, and the maximum
\* evapotranspiration inside and outside of it
GROWING_SEASON == [first |-> 1, last |-> 2]
ET_MAX == [growing |-> Rat(1, 5), other |-> Rat(0, 1)]

-----------------------------------------------------------------------------
(* The lookup layer, tr55/tablelookup.py.                                  *)

\* faulty variant: an unknown land use falls back to the factor 0
lookup_infiltration_factor_default(land_use) ==
    IF land_use \notin DOMAIN LAND_USE_VALUES
    THEN Return(Zero, <<"lookup_infiltration_factor">>)
    ELSE IF "ki" \notin DOMAIN LAND_USE_VALUES[land_use]
    THEN Raise("KeyError", Fmt("No infiltration factor for land use ", land_use),
               <<"lookup_infiltration_factor">>)
    ELSE IF "infiltration_factor" \notin DOMAIN LAND_USE_VALUES[land_use]
    THEN Raise("KeyError", <<"infiltration_factor">>, <<"lookup_infiltration_factor">>)
    ELSE Return(LAND_USE_VALUES[land_use]["infiltration_factor"],
                <<"lookup_infiltration_factor">>)

lookup_infiltration_factor(land_use) ==
    IF land_use \notin DOMAIN LAND_USE_VALUES
    THEN Raise("KeyError", Fmt("Unknown land use: ", land_use),
               <<"lookup_infiltration_factor">>)
    ELSE IF "ki" \notin DOMAIN LAND_USE_VALUES[land_use]
    THEN Raise("KeyError", Fmt("No infiltration factor for land use ", land_use),
               <<"lookup_infiltration_factor">>)
    \* the row is indexed by 'infiltration_factor', not by the key just tested
    ELSE IF "infiltration_factor" \notin DOMAIN LAND_USE_VALUES[land_use]
    THEN Raise("KeyError", <<"infiltration_factor">>, <<"lookup_infiltration_factor">>)
    ELSE Return(LAND_USE_VALUES[land_use]["infiltration_factor"],
                <<"lookup_infiltration_factor">>)

lookup_ki(land_use) ==
    IF land_use \notin DOMAIN LAND_USE_VALUES
    THEN Raise("KeyError", Fmt("Unknown land use: ", land_use), <<"lookup_ki">>)
    ELSE IF "ki" \notin DOMAIN LAND_USE_VALUES[land_use]
    THEN Raise("KeyError", Fmt("No ki for land use ", land_use), <<"lookup_ki">>)
    ELSE Return(LAND_USE_VALUES[land_use]["ki"], <<"lookup_ki">>)

lookup_cn(soil_type, land_use) ==
    IF land_use \notin DOMAIN LAND_USE_VALUES
    THEN Raise("KeyError", Fmt("Unknown land use: ", land_use), <<"lookup_cn">>)
    ELSE IF "cn" \notin DOMAIN LAND_USE_VALUES[land_use]
    THEN Raise("KeyError", Fmt("No curve numbers for land use ", land_use),
               <<"lookup_cn">>)
    ELSE IF soil_type \notin DOMAIN LAND_USE_VALUES[land_use]["cn"]
    THEN Raise("KeyError", Fmt("Unknown soil type: ", soil_type), <<"lookup_cn">>)
    ELSE Return(LAND_USE_VALUES[land_use]["cn"][soil_type], <<"lookup_cn">>)

is_bmp(land_use) == Return(land_use \in BMPS, <<"is_bmp">>)

is_built_type(land_use) == Return(land_use \in BUILT_TYPES, <<"is_built_type">>)

\* faulty variant: a land use outside NON_NATURAL is not left alone
make_precolumbian_else_pasture(land_use) ==
    IF land_use \in NON_NATURAL
    THEN Return(Str("mixed_forest"), <<"make_precolumbian">>)
    ELSE Return(Str("Pasture"), <<"make_precolumbian">>)

make_precolumbian(land_use) ==
    IF land_use \in NON_NATURAL
    THEN Return(Str("mixed_forest"), <<"make_precolumbian">>)
    ELSE Return(land_use, <<"make_precolumbian">>)

lookup_nlcd(land_use) ==
    IF land_use \notin DOMAIN LAND_USE_VALUES
    THEN Raise("KeyError", Fmt("Unknown land use type: ", land_use), <<"lookup_nlcd">>)
    ELSE IF "nlcd" \notin DOMAIN LAND_USE_VALUES[land_use]
    \* KeyError is given the template and the land use as two arguments
    THEN Raise("KeyError",
               <<"Land use type %s does not have an NLCD class defined">> \o land_use,
               <<"lookup_nlcd">>)
    ELSE Return(LAND_USE_VALUES[land_use]["nlcd"], <<"lookup_nlcd">>)

\* The three lookups that tr55/model.py imports and this tablelookup.py
\* does not define, after their description.

\* the run of the series that holds day offset k
RECURSIVE RunOf(_, _, _)
RunOf(series, i, k) ==
    IF i > Len(series) THEN 0
    ELSE IF k < series[i].days THEN i
    ELSE RunOf(series, i + 1, k - series[i].days)

RECURSIVE DaysIn(_, _)
DaysIn(series, i) ==
    IF i > Len(series) THEN 0 ELSE series[i].days + DaysIn(series, i + 1)

lookup_p(date) ==
    LET i == RunOf(SAMPLE_YEAR, 1, date % DaysIn(SAMPLE_YEAR, 1))
    IN  IF i = 0
        THEN Raise("Exception", <<"No value for day">>, <<"lookup_p">>)
        ELSE Return(SAMPLE_YEAR[i].p, <<"lookup_p">>)

\* the maximum for the season of the date, times the coefficient ki
lookup_et_ki(date, ki) ==
    LET day == date % DaysIn(SAMPLE_YEAR, 1)
        et_max == IF GROWING_SEASON.first <= day /\ day <= GROWING_SEASON.last
                  THEN ET_MAX.growing ELSE ET_MAX.other
    IN  IF ~ki.ok THEN [ki EXCEPT !.calls = <<"lookup_et">> \o @]
        ELSE Return(RMul(et_max, ki.val), <<"lookup_et">> \o ki.calls)

lookup_et(date, land_use) == lookup_et_ki(date, lookup_ki(land_use))

lookup_bmp_infiltration(soil_type, bmp) ==
    IF bmp \notin DOMAIN LAND_USE_VALUES
    THEN Raise("KeyError", Fmt("Unknown BMP: ", bmp), <<"lookup_bmp_infiltration">>)
    ELSE IF "infiltration" \notin DOMAIN LAND_USE_VALUES[bmp]
    THEN Raise("KeyError", Fmt("No infiltration for ", bmp),
               <<"lookup_bmp_infiltration">>)
    ELSE IF soil_type \notin DOMAIN LAND_USE_VALUES[bmp]["infiltration"]
    THEN Raise("KeyError", Fmt("Unknown soil type: ", soil_type),
               <<"lookup_bmp_infiltration">>)
    ELSE Return(LAND_USE_VALUES[bmp]["infiltration"][soil_type],
                <<"lookup_bmp_infiltration">>)

-----------------------------------------------------------------------------
(* The Pitt small-storm polynomials of runoff_pitt.  Their constants have  *)
(* eleven decimals: a coefficient is the pair <<hi, lo>> that stands for   *)
(* (hi * 10^6 + lo) * 10^-11, and a value is such a pair over a            *)
(* denominator den.                                                        *)

Million == 1000 * 1000

BigNorm(m) == <<m[1] + (m[2] \div Million), m[2] % Million>>
BigAdd(m, n) == BigNorm(<<m[1] + n[1], m[2] + n[2]>>)
BigScale(m, k) == BigNorm(<<m[1] * k, m[2] * k>>)
\* the sign of a normalised pair
BigSign(m) == IF m[1] # 0 THEN (IF m[1] < 0 THEN -1 ELSE 1)
              ELSE (IF m[2] > 0 THEN 1 ELSE 0)

const1 == <<3638, 858398>>
const2 == <<-12434, -640390>>
const3 == <<12956, 822230>>
const4 == <<93758, 680430>>
const5 == <<-2235, -170859>>
const6 == <<17022, 806700>>
const7 == <<-39718, -107820>>
const8 == <<38872, 755380>>
const9 == <<-2289, -321859>>

RECURSIVE Pow(_, _)
Pow(b, e) == IF e = 0 THEN 1 ELSE b * Pow(b, e - 1)

\* c * (p/q)^k over the denominator q^n
Term(c, x, k, n) == BigScale(BigScale(c, Pow(x[1], k)), Pow(x[2], n - k))

impervious(precip) ==
    [m |-> BigAdd(BigAdd(Term(const1, precip, 3, 3), Term(const2, precip, 2, 3)),
                  BigAdd(Term(const3, precip, 1, 3), Term(const4, precip, 0, 3))),
     den |-> Pow(precip[2], 3)]

urban_grass(precip) ==
    [m |-> BigAdd(BigAdd(BigAdd(Term(const5, precip, 4, 4), Term(const6, precip, 3, 4)),
                         BigAdd(Term(const7, precip, 2, 4), Term(const8, precip, 1, 4))),
                  Term(const9, precip, 0, 4)),
     den |-> Pow(precip[2], 4)]

\* (wi / 100) * impervious + (wg / 100) * urban_grass
Blend(wi, wg, precip) ==
    [m |-> BigAdd(BigScale(BigScale(impervious(precip).m, precip[2]), wi),
                  BigScale(urban_grass(precip).m, wg)),
     den |-> 100 * Pow(precip[2], 4)]

runoff_vals(precip) ==
    (Str("Water") :> impervious(precip)) @@
    (Str("LI_Residential") :> Blend(20, 80, precip)) @@
    (Str("HI_Residential") :> Blend(65, 35, precip)) @@
    (Str("Commercial") :> impervious(precip)) @@
    (Str("Industrial") :> impervious(precip)) @@
    (Str("Transportation") :> impervious(precip)) @@
    (Str("UrbanGrass") :> urban_grass(precip))

\* the polynomial value v equals the rational r
BigEq(v, r) ==
    BigScale(v.m, r[2]) = BigNorm(<<r[1] * v.den * 100000, 0>>)

\* the polynomial value v is at most the rational r
BigLe(v, r) ==
    BigSign(BigAdd(BigScale(v.m, r[2]),
                   BigNorm(<<-(r[1] * v.den * 100000), 0>>))) <= 0

-----------------------------------------------------------------------------
(* The simulation layer, tr55/model.py.                                    *)

\* Line 45 reads the name runoff.  Lines 17-44 bind precip, land_use,
\* const1 .. const9, impervious, urban_grass and runoff_vals and nothing
\* else, and the module defines no runoff: the read raises NameError.
runoff_pitt(precip, land_use) ==
    IF land_use \notin DOMAIN runoff_vals(precip)
    THEN Raise("Exception", <<"Land use ">> \o land_use \o <<" not a built-type">>,
               <<"runoff_pitt">>)
    ELSE Raise("NameError", <<"global name 'runoff' is not defined">>,
               <<"runoff_pitt">>)

\* line 58, q being the outcome of the division of line 57
runoff_nrcs_min(precip, c, q) ==
    IF ~q.ok THEN [q EXCEPT !.calls = c]
    ELSE Return(RMin(q.val, precip), c)

\* lines 55-57
runoff_nrcs_runoff(precip, c, potential_retention) ==
    LET initial_abs == RMul(Rat(1, 5), potential_retention)
        precip_minus_initial_abs == RSub(precip, initial_abs)
    IN  runoff_nrcs_min(precip, c,
            FloatDiv(RMul(precip_minus_initial_abs, precip_minus_initial_abs),
                     RAdd(precip_minus_initial_abs, potential_retention)))

\* line 54, d being the outcome of 1000.0 / curve_number
runoff_nrcs_retention(precip, c, d) ==
    IF ~d.ok THEN [d EXCEPT !.calls = c]
    ELSE runoff_nrcs_runoff(precip, c, RSub(d.val, Rat(10, 1)))

\* faulty variant: a zero curve number is taken as "nothing runs off"
runoff_nrcs_zero_cn(precip, curve_number) ==
    IF ~curve_number.ok THEN [curve_number EXCEPT !.calls = <<"runoff_nrcs">> \o @]
    ELSE IF curve_number.val = 0
    THEN Return(Zero, <<"runoff_nrcs">> \o curve_number.calls)
    ELSE runoff_nrcs_retention(precip, <<"runoff_nrcs">> \o curve_number.calls,
                               FloatDiv(Rat(1000, 1), Rat(curve_number.val, 1)))

\* lines 53-54, curve_number being the outcome of lookup_cn
runoff_nrcs_cn(precip, curve_number) ==
    IF ~curve_number.ok THEN [curve_number EXCEPT !.calls = <<"runoff_nrcs">> \o @]
    ELSE runoff_nrcs_retention(precip, <<"runoff_nrcs">> \o curve_number.calls,
                               FloatDiv(Rat(1000, 1), Rat(curve_number.val, 1)))

runoff_nrcs(precip, soil_type, land_use) ==
    runoff_nrcs_cn(precip, lookup_cn(soil_type, land_use))

\* tile_string.split(':')
RECURSIVE SplitFrom(_, _, _, _)
SplitFrom(s, i, cur, acc) ==
    IF i > Len(s) THEN Append(acc, cur)
    ELSE IF s[i] = ":" THEN SplitFrom(s, i + 1, <<>>, Append(acc, cur))
    ELSE SplitFrom(s, i + 1, Append(cur, s[i]), acc)

split(s) == SplitFrom(s, 1, <<>>, <<>>)

\* faulty variant: the wetlands are missing from the set
pre_columbian_land_uses_water_only == {Str("Water")}

pre_columbian_land_uses ==
    {Str("Water"), Str("WoodyWetland"), Str("HerbaceousWetland")}

\* lines 88-90, p and et being the outcomes of lookup_p and lookup_et
resolve_date(p, et) ==
    IF ~p.ok THEN p
    ELSE IF ~et.ok THEN [et EXCEPT !.calls = p.calls \o @]
    ELSE Return(<<p.val, et.val>>, p.calls \o et.calls)

\* lines 88-94: precip and evaptrans from the first argument
resolve_parameters(parameters, land_use) ==
    IF parameters.type = "date"
    THEN resolve_date(lookup_p(parameters.day), lookup_et(parameters.day, land_use))
    ELSE IF parameters.type = "tuple"
    THEN IF Len(parameters.items) < 2
         THEN Raise("ValueError", <<"need more than 1 value to unpack">>, <<>>)
         ELSE IF Len(parameters.items) > 2
         THEN Raise("ValueError", <<"too many values to unpack">>, <<>>)
         ELSE Return(parameters.items, <<>>)
    ELSE Raise("Exception", <<"First argument must be a date or a (P,ET) pair">>, <<>>)

\* lines 101-102, inf being the outcome of lookup_bmp_infiltration
simulate_bmp(precip, evaptrans, c, inf) ==
    IF ~inf.ok THEN [inf EXCEPT !.calls = c \o @]
    ELSE Return(<<RMax(RSub(precip, RAdd(evaptrans, inf.val)), Zero),
                  evaptrans, inf.val>>, c \o inf.calls)

\* lines 108-109, runoff being the outcome of runoff_pitt or runoff_nrcs
simulate_residual(precip, evaptrans, c, runoff) ==
    IF ~runoff.ok THEN [runoff EXCEPT !.calls = c \o @]
    ELSE Return(<<runoff.val, evaptrans,
                  RMax(RSub(precip, RAdd(evaptrans, runoff.val)), Zero)>>,
                c \o runoff.calls)

\* faulty variant: the short-circuit on a zero precipitation is missing
simulate_branches_no_zero_check(precip, evaptrans, tile_string, soil_type, land_use, c) ==
    IF is_bmp(tile_string).val
    THEN simulate_bmp(precip, evaptrans, c \o <<"is_bmp">>,
                      lookup_bmp_infiltration(soil_type, land_use))
    ELSE simulate_residual(precip, evaptrans, c \o <<"is_bmp", "is_built_type">>,
             IF is_built_type(land_use).val /\ RLe(precip, Rat(2, 1))
             THEN runoff_pitt(precip, land_use)
             ELSE runoff_nrcs(precip, soil_type, land_use))

\* lines 96-109: the branches, once precip and evaptrans are known
simulate_branches(precip, evaptrans, tile_string, soil_type, land_use, c) ==
    IF precip = Zero THEN Return(<<Zero, Zero, Zero>>, c)
    ELSE IF is_bmp(tile_string).val
    THEN simulate_bmp(precip, evaptrans, c \o <<"is_bmp">>,
                      lookup_bmp_infiltration(soil_type, land_use))
    ELSE simulate_residual(precip, evaptrans, c \o <<"is_bmp", "is_built_type">>,
             IF is_built_type(land_use).val /\ RLe(precip, Rat(2, 1))
             THEN runoff_pitt(precip, land_use)
             ELSE runoff_nrcs(precip, soil_type, land_use))

\* lines 96-109, pe being the outcome of lines 88-94
simulate_resolved(pe, tile_string, soil_type, land_use) ==
    IF ~pe.ok THEN pe
    ELSE simulate_branches(pe.val[1], pe.val[2], tile_string,
                           soil_type, land_use, pe.calls)

\* lines 83-109, parts being tile_string.split(':') with its two parts
simulate_parts(parameters, tile_string, parts, pre_columbian) ==
    LET land_use == IF pre_columbian /\ parts[2] \notin pre_columbian_land_uses
                    THEN Str("MixedForest") ELSE parts[2]
    IN  simulate_resolved(resolve_parameters(parameters, land_use),
                          tile_string, parts[1], land_use)

simulate_tile(parameters, tile_string, pre_columbian) ==
    IF Len(split(tile_string)) < 2
    THEN Raise("ValueError", <<"need more than 1 value to unpack">>, <<>>)
    ELSE IF Len(split(tile_string)) > 2
    THEN Raise("ValueError", <<"too many values to unpack">>, <<>>)
    ELSE simulate_parts(parameters, tile_string, split(tile_string), pre_columbian)

\* faulty variant: the weight local_count / global_count is taken first,
\* as a quotient of two integers
scale_integer_weight(x, local_count, global_count) ==
    IF global_count = 0
    THEN Raise("ZeroDivisionError", <<"integer division or modulo by zero">>, <<>>)
    ELSE Return(RMul(x, Rat(local_count \div global_count, 1)), <<>>)

\* line 140: (x * local_count) / global_count
scale(x, local_count, global_count) ==
    FloatDiv(RMul(x, Rat(local_count, 1)), Rat(global_count, 1))

\* line 140, t being the outcome of simulate_tile
simulate_scaled(t, local_count, global_count) ==
    LET x == scale(t.val[1], local_count, global_count)
        y == scale(t.val[2], local_count, global_count)
        z == scale(t.val[3], local_count, global_count)
    IN  IF ~t.ok THEN [t EXCEPT !.calls = <<"simulate_tile">> \o @]
        ELSE IF ~x.ok THEN [x EXCEPT !.calls = <<"simulate_tile">> \o t.calls]
        ELSE Return(<<x.val, y.val, z.val>>, <<"simulate_tile">> \o t.calls)

\* lines 136-140: the helper simulate
simulate(parameters, pre_columbian, global_count, tile_string, local_count) ==
    simulate_scaled(simulate_tile(parameters, tile_string, pre_columbian),
                    local_count, global_count)

\* line 142: the list of the scaled triples, in the order the dict yields;
\* r is the outcome of simulate for the tile order[i]
RECURSIVE simulate_each(_, _, _, _, _, _, _, _)
RECURSIVE simulate_next(_, _, _, _, _, _, _, _, _)
simulate_next(parameters, pre_columbian, global_count, distribution, order, i, acc, c, r) ==
    IF ~r.ok THEN [r EXCEPT !.calls = c \o @]
    ELSE simulate_each(parameters, pre_columbian, global_count, distribution,
                       order, i + 1, Append(acc, r.val), c \o r.calls)

simulate_each(parameters, pre_columbian, global_count, distribution, order, i, acc, c) ==
    IF i > Len(order) THEN Return(acc, c)
    ELSE simulate_next(parameters, pre_columbian, global_count, distribution,
                       order, i, acc, c,
                       simulate(parameters, pre_columbian, global_count,
                                order[i], distribution[order[i]]))

\* line 143: reduce(lambda (a, b, c), (x, y, z): (a+x, b+y, c+z), results, (0, 0, 0))
RECURSIVE reduce(_, _, _)
reduce(results, i, acc) ==
    IF i > Len(results) THEN acc
    ELSE reduce(results, i + 1,
                <<RAdd(acc[1], results[i][1]), RAdd(acc[2], results[i][2]),
                  RAdd(acc[3], results[i][3])>>)

\* faulty variant: the "error" key is not looked at
validate_no_error_key(tile_census) ==
    IF "result" \notin DOMAIN tile_census
    THEN Raise("Exception", <<"Tile census does not contain \"result\" key">>, <<>>)
    ELSE IF "cell_count" \notin DOMAIN tile_census["result"]
    THEN Raise("Exception",
               <<"Tile census does not contain \"result.cell_count\" key">>, <<>>)
    ELSE IF "distribution" \notin DOMAIN tile_census["result"]
    THEN Raise("Exception",
               <<"Tile census does not contain \"result.distribution\" key">>, <<>>)
    ELSE Return(TRUE, <<>>)

\* lines 125-132: the checks of the census
validate(tile_census) ==
    IF "error" \in DOMAIN tile_census
    THEN Raise("Exception", <<"Tile census contains \"error\" key">>, <<>>)
    ELSE IF "result" \notin DOMAIN tile_census
    THEN Raise("Exception", <<"Tile census does not contain \"result\" key">>, <<>>)
    ELSE IF "cell_count" \notin DOMAIN tile_census["result"]
    THEN Raise("Exception",
               <<"Tile census does not contain \"result.cell_count\" key">>, <<>>)
    ELSE IF "distribution" \notin DOMAIN tile_census["result"]
    THEN Raise("Exception",
               <<"Tile census does not contain \"result.distribution\" key">>, <<>>)
    ELSE Return(TRUE, <<>>)

\* line 143, results being the outcome of line 142
tile_by_tile_reduce(results) ==
    IF ~results.ok THEN results
    ELSE Return(reduce(results.val, 1, <<Zero, Zero, Zero>>), results.calls)

\* lines 134-143, v being the outcome of the checks
tile_by_tile_checked(parameters, tile_census, pre_columbian, order, v) ==
    IF ~v.ok THEN v
    ELSE tile_by_tile_reduce(
             simulate_each(parameters, pre_columbian,
                           tile_census["result"]["cell_count"],
                           tile_census["result"]["distribution"],
                           order, 1, <<>>, <<>>))

\* order: the order in which distribution.items() yields the tiles
tile_by_tile_tr55(parameters, tile_census, pre_columbian, order) ==
    tile_by_tile_checked(parameters, tile_census, pre_columbian, order,
                         validate(tile_census))

-----------------------------------------------------------------------------
(* The arguments that the calls are drawn from.                            *)

PValues == {Rat(k, PDen) : k \in 0..MaxPNum}
ETValues == {Rat(k, PDen) : k \in 0..MaxETNum}

Pair(p, et) == [type |-> "tuple", items |-> <<p, et>>, day |-> 0]
Date(d) == [type |-> "date", items |-> <<>>, day |-> d]

Params ==
    {Pair(p, et) : p \in PValues, et \in ETValues}
    \cup {Date(d) : d \in 0..MaxDay}
    \cup {[type |-> "tuple", items |-> <<Zero>>, day |-> 0],
          [type |-> "list", items |-> <<Zero, Zero>>, day |-> 0]}

LandUseInputs == DOMAIN LAND_USE_VALUES \cup {Str("Moon"), Str("mixed_forest")}
SoilInputs == {Str("a"), Str("d"), Str("z")}

Tile(soil_type, land_use) == soil_type \o <<":">> \o land_use

TileStrings ==
    {Tile(s, l) : s \in SoilInputs, l \in LandUseInputs}
    \cup {Str("Water"), <<"a", ":", "Water", ":", "Water">>, <<>>}

\* the census: the tiles, the counts and the day parameters tried
CensusTiles ==
    {Tile(Str("a"), Str("MixedForest")), Tile(Str("d"), Str("WoodyWetland")),
     Tile(Str("a"), Str("RainGarden")), Tile(Str("a"), Str("BarrenLand"))}

Counts == (0..MaxCount) \cup {40, 60, 100}

CensusParams ==
    {Pair(Rat(k, PDen), et) : k \in {0, MaxPNum}, et \in {Zero, Rat(1, PDen)}}
    \cup {Date(2)}

Distributions ==
    UNION {[ts -> Counts] : ts \in {x \in SUBSET CensusTiles : Cardinality(x) <= 2}}

Empty == [x \in {} |-> 0]

Census(hasError, hasResult, hasCount, hasDistribution, cell_count, distribution) ==
    (IF hasError THEN [error |-> Str("no such polygon")] ELSE Empty) @@
    (IF hasResult
     THEN [result |-> (IF hasCount THEN [cell_count |-> cell_count] ELSE Empty) @@
                      (IF hasDistribution THEN [distribution |-> distribution]
                       ELSE Empty)]
     ELSE Empty)

Censuses ==
    {Census(FALSE, TRUE, TRUE, TRUE, n, d) : n \in Counts, d \in Distributions}
    \cup {Census(e, r, c, d, 100, Tile(Str("a"), Str("MixedForest")) :> 100) :
            e \in BOOLEAN, r \in BOOLEAN, c \in BOOLEAN, d \in BOOLEAN}

\* the orders in which a dict with these keys can yield them
Orders(keys) ==
    {o \in UNION {[1..n -> keys] : n \in {Cardinality(keys)}} :
        \A i, j \in DOMAIN o : i # j => o[i] # o[j]}

-----------------------------------------------------------------------------
(* The state machine: one call of one function.                            *)

NoOutcome == [ok |-> FALSE, err |-> [type |-> "none", msg |-> <<>>], calls |-> <<>>]

Init ==
    /\ pc = "call"
    /\ outcome = NoOutcome
    /\ \/ call \in [fn : {"simulate_tile"}, parameters : Params,
                    tile_string : TileStrings, pre_columbian : BOOLEAN]
       \/ call \in [fn : {"tile_by_tile_tr55"}, parameters : CensusParams,
                    tile_census : Censuses, pre_columbian : BOOLEAN]
       \/ call \in [fn : {"runoff_pitt"}, precip : PValues, land_use : LandUseInputs]
       \/ call \in [fn : {"runoff_nrcs"}, precip : PValues, soil_type : SoilInputs,
                    land_use : LandUseInputs]
       \/ call \in [fn : {"lookup_cn"}, soil_type : SoilInputs, land_use : LandUseInputs]
       \/ call \in [fn : {"lookup_infiltration_factor", "lookup_ki", "lookup_nlcd",
                          "is_bmp", "is_built_type", "make_precolumbian"},
                    land_use : LandUseInputs]

Done(result) ==
    /\ outcome' = result
    /\ pc' = "done"
    /\ UNCHANGED call

SimulateTile ==
    /\ pc = "call" /\ call.fn = "simulate_tile"
    /\ Done(simulate_tile(call.parameters, call.tile_string, call.pre_columbian))

TileByTileTr55 ==
    /\ pc = "call" /\ call.fn = "tile_by_tile_tr55"
    /\ \E order \in (IF validate(call.tile_census).ok
                     THEN Orders(DOMAIN call.tile_census["result"]["distribution"])
                     ELSE {<<>>}) :
          Done(tile_by_tile_tr55(call.parameters, call.tile_census,
                                 call.pre_columbian, order))

RunoffPitt ==
    /\ pc = "call" /\ call.fn = "runoff_pitt"
    /\ Done(runoff_pitt(call.precip, call.land_use))

RunoffNrcs ==
    /\ pc = "call" /\ call.fn = "runoff_nrcs"
    /\ Done(runoff_nrcs(call.precip, call.soil_type, call.land_use))

LookupInfiltrationFactor ==
    /\ pc = "call" /\ call.fn = "lookup_infiltration_factor"
    /\ Done(lookup_infiltration_factor(call.land_use))

LookupKi ==
    /\ pc = "call" /\ call.fn = "lookup_ki"
    /\ Done(lookup_ki(call.land_use))

LookupCn ==
    /\ pc = "call" /\ call.fn = "lookup_cn"
    /\ Done(lookup_cn(call.soil_type, call.land_use))

IsBmp ==
    /\ pc = "call" /\ call.fn = "is_bmp"
    /\ Done(is_bmp(call.land_use))

IsBuiltType ==
    /\ pc = "call" /\ call.fn = "is_built_type"
    /\ Done(is_built_type(call.land_use))

MakePrecolumbian ==
    /\ pc = "call" /\ call.fn = "make_precolumbian"
    /\ Done(make_precolumbian(call.land_use))

LookupNlcd ==
    /\ pc = "call" /\ call.fn = "lookup_nlcd"
    /\ Done(lookup_nlcd(call.land_use))

Next ==
    \/ SimulateTile
    \/ TileByTileTr55
    \/ RunoffPitt
    \/ RunoffNrcs
    \/ LookupInfiltrationFactor
    \/ LookupKi
    \/ LookupCn
    \/ IsBmp
    \/ IsBuiltType
    \/ MakePrecolumbian
    \/ LookupNlcd

Spec == Init /\ [][Next]_vars

-----------------------------------------------------------------------------
(* Vocabulary of the properties.                                           *)

Range(f) == {f[i] : i \in DOMAIN f}

Returned(fn) == pc = "done" /\ call.fn = fn

\* the tile string has the form soil_type:land_use
WellFormed(tile_string) == Len(split(tile_string)) = 2
SoilOf(tile_string) == split(tile_string)[1]
LandUseOf(tile_string) == split(tile_string)[2]

\* the first argument is an explicit (P, ET) pair
IsPair(parameters) == parameters.type = "tuple" /\ Len(parameters.items) = 2
IsDate(parameters) == parameters.type = "date"

\* the land use that the computation works with, given the flag
Effective(land_use, pre_columbian) ==
    IF pre_columbian
       /\ land_use \notin {Str("Water"), Str("WoodyWetland"), Str("HerbaceousWetland")}
    THEN Str("MixedForest") ELSE land_use

\* the precipitation of the call is resolved, and is p
Precipitation(parameters, p) ==
    \/ IsPair(parameters) /\ parameters.items[1] = p
    \/ IsDate(parameters) /\ lookup_p(parameters.day).ok
                          /\ lookup_p(parameters.day).val = p

SameOutcome(o1, o2) ==
    /\ o1.ok = o2.ok
    /\ o1.ok => o1.val = o2.val
    /\ ~o1.ok => o1.err = o2.err

Triple(o, r, et, inf) == o.ok /\ o.val = <<r, et, inf>>

\* the exception's message ends with the key
Names(o, key) ==
    /\ ~o.ok
    /\ Len(o.err.msg) > Len(key)
    /\ SubSeq(o.err.msg, Len(o.err.msg) - Len(key) + 1, Len(o.err.msg)) = key

\* absent from every reference table
Unknown(land_use) ==
    land_use \notin DOMAIN LAND_USE_VALUES \cup BMPS \cup BUILT_TYPES \cup NON_NATURAL

-----------------------------------------------------------------------------
(* C1: for a non-BMP tile and a precipitation P # 0, a returned triple has *)
(* runoff <= P and runoff + ET + infiltration = P.  The statement as       *)
(* claimed; it fails where ET + runoff exceeds P, the infiltration being   *)
(* cut off at 0.                                                           *)
C1_MassBalance ==
    (/\ Returned("simulate_tile")
     /\ WellFormed(call.tile_string)
     /\ LandUseOf(call.tile_string) \notin BMPS
     /\ IsPair(call.parameters)
     /\ call.parameters.items[1] # Zero
     /\ outcome.ok)
    => LET p == call.parameters.items[1]
       IN  /\ RLe(outcome.val[1], p)
           /\ RAdd(RAdd(outcome.val[1], outcome.val[2]), outcome.val[3]) = p

(* C2, as claimed: whenever the resolved precipitation is 0, the call      *)
(* returns (0, 0, 0), whatever the well-formed tile string, the            *)
(* evapotranspiration and the flag.                                        *)
C2_ZeroAlways ==
    (/\ Returned("simulate_tile")
     /\ WellFormed(call.tile_string)
     /\ Precipitation(call.parameters, Zero))
    => Triple(outcome, Zero, Zero, Zero)

(* C2, amended: with a precipitation of 0 given in an explicit pair, or    *)
(* looked up for a date for which the evapotranspiration lookup of the     *)
(* (possibly replaced) land use succeeds, the call returns (0, 0, 0);      *)
(* for a date whose evapotranspiration lookup fails, the call ends in      *)
(* that lookup's error, on a dry day too.                                  *)
C2_ZeroPrecipitation ==
    (/\ Returned("simulate_tile")
     /\ WellFormed(call.tile_string)
     /\ Precipitation(call.parameters, Zero))
    => LET et == lookup_et(call.parameters.day,
                           Effective(LandUseOf(call.tile_string), call.pre_columbian))
       IN  IF IsDate(call.parameters) /\ ~et.ok
           THEN ~outcome.ok /\ outcome.err = et.err
           ELSE Triple(outcome, Zero, Zero, Zero)

C2_Witness ==
    /\ Returned("simulate_tile")
    /\ call.tile_string = Tile(Str("z"), Str("Moon"))
    /\ call.parameters = Pair(Zero, Rat(1, PDen))
    /\ Triple(outcome, Zero, Zero, Zero)

(* C3, as claimed: for a tile whose land use is a BMP and a precipitation  *)
(* P # 0, the infiltration is bmp_infiltration(soil, land use), the runoff *)
(* is max(P - ET - infiltration, 0), the ET is the input ET, and neither   *)
(* runoff_pitt nor runoff_nrcs is entered.                                 *)
C3_BmpBranch ==
    (/\ Returned("simulate_tile")
     /\ WellFormed(call.tile_string)
     /\ LandUseOf(call.tile_string) \in BMPS
     /\ ~call.pre_columbian
     /\ IsPair(call.parameters)
     /\ call.parameters.items[1] # Zero
     /\ lookup_bmp_infiltration(SoilOf(call.tile_string),
                                LandUseOf(call.tile_string)).ok)
    => LET p == call.parameters.items[1]
           et == call.parameters.items[2]
           inf == lookup_bmp_infiltration(SoilOf(call.tile_string),
                                          LandUseOf(call.tile_string)).val
       IN  /\ Triple(outcome, RMax(RSub(RSub(p, et), inf), Zero), et, inf)
           /\ "runoff_pitt" \notin Range(outcome.calls)
           /\ "runoff_nrcs" \notin Range(outcome.calls)

(* C4: for a well-formed census with a positive cell_count whose tiles all *)
(* simulate without error, tile_by_tile_tr55 returns the componentwise sum *)
(* over the distribution of (count / cell_count) * simulate_tile(tile).    *)

\* the sum of weight * triple over the tiles, each taken once
RECURSIVE WeightedSum(_, _, _, _, _)
WeightedSum(tiles, distribution, cell_count, parameters, pre_columbian) ==
    IF tiles = {} THEN <<Zero, Zero, Zero>>
    ELSE LET tile == CHOOSE t \in tiles : TRUE
             weight == Rat(distribution[tile], cell_count)
             triple == simulate_tile(parameters, tile, pre_columbian).val
             rest == WeightedSum(tiles \ {tile}, distribution, cell_count,
                                 parameters, pre_columbian)
         IN  <<RAdd(RMul(weight, triple[1]), rest[1]),
               RAdd(RMul(weight, triple[2]), rest[2]),
               RAdd(RMul(weight, triple[3]), rest[3])>>

C4_WeightedAverage ==
    (/\ Returned("tile_by_tile_tr55")
     /\ validate(call.tile_census).ok
     /\ call.tile_census["result"]["cell_count"] > 0
     /\ \A tile \in DOMAIN call.tile_census["result"]["distribution"] :
           simulate_tile(call.parameters, tile, call.pre_columbian).ok)
    => /\ outcome.ok
       /\ outcome.val = WeightedSum(DOMAIN call.tile_census["result"]["distribution"],
                                    call.tile_census["result"]["distribution"],
                                    call.tile_census["result"]["cell_count"],
                                    call.parameters, call.pre_columbian)

\* counts 60 and 40 out of 100, both tiles with a runoff
C4_Witness ==
    /\ Returned("tile_by_tile_tr55")
    /\ validate(call.tile_census).ok
    /\ call.tile_census["result"]["cell_count"] = 100
    /\ call.tile_census["result"]["distribution"] =
          (Tile(Str("a"), Str("MixedForest")) :> 60) @@
          (Tile(Str("d"), Str("WoodyWetland")) :> 40)
    /\ outcome.ok
    /\ RLt(Zero, outcome.val[1])
    /\ outcome.val[1] #
          simulate_tile(call.parameters, Tile(Str("a"), Str("MixedForest")),
                        call.pre_columbian).val[1]

(* C5, as claimed: tile_by_tile_tr55 ends in a structural error exactly    *)
(* when result.cell_count or result.distribution is missing, and then no   *)
(* tile has been simulated.                                                *)

Structural(o) ==
    /\ ~o.ok
    /\ o.err.type = "Exception"
    /\ o.err.msg \in {<<"Tile census contains \"error\" key">>,
                      <<"Tile census does not contain \"result\" key">>,
                      <<"Tile census does not contain \"result.cell_count\" key">>,
                      <<"Tile census does not contain \"result.distribution\" key">>}

MissingField(tile_census) ==
    \/ "result" \notin DOMAIN tile_census
    \/ "cell_count" \notin DOMAIN tile_census["result"]
    \/ "distribution" \notin DOMAIN tile_census["result"]

C5_RejectedIffMissingField ==
    Returned("tile_by_tile_tr55")
    => /\ Structural(outcome) <=> MissingField(call.tile_census)
       /\ Structural(outcome) => "simulate_tile" \notin Range(outcome.calls)

(* C5, amended: tile_by_tile_tr55 ends in a structural error exactly when  *)
(* the census has an "error" key or lacks result, result.cell_count or     *)
(* result.distribution; the error is raised before any tile is simulated.  *)
C5_RejectedIffMalformed ==
    Returned("tile_by_tile_tr55")
    => /\ Structural(outcome) <=>
             ("error" \in DOMAIN call.tile_census \/ MissingField(call.tile_census))
       /\ Structural(outcome) => "simulate_tile" \notin Range(outcome.calls)

\* a census with an "error" key and both fields is rejected
C5_Witness ==
    /\ Returned("tile_by_tile_tr55")
    /\ "error" \in DOMAIN call.tile_census
    /\ ~MissingField(call.tile_census)
    /\ Structural(outcome)
    /\ outcome.calls = <<>>

(* C6: when the curve number looked up is 0, runoff_nrcs, and              *)
(* simulate_tile on its NRCS branch, end in an error (the division by      *)
(* zero); no value is returned.                                            *)
C6_ZeroCurveNumber ==
    /\ (/\ Returned("runoff_nrcs")
        /\ lookup_cn(call.soil_type, call.land_use).ok
        /\ lookup_cn(call.soil_type, call.land_use).val = 0)
       => ~outcome.ok /\ outcome.err.type = "ZeroDivisionError"
    /\ (/\ Returned("simulate_tile")
        /\ "runoff_nrcs" \in Range(outcome.calls)
        /\ LET cn == lookup_cn(SoilOf(call.tile_string),
                               Effective(LandUseOf(call.tile_string),
                                         call.pre_columbian))
           IN  cn.ok /\ cn.val = 0)
       => ~outcome.ok /\ outcome.err.type = "ZeroDivisionError"

C6_Witness ==
    /\ Returned("simulate_tile")
    /\ call.tile_string = Tile(Str("a"), Str("BarrenLand"))
    /\ IsPair(call.parameters)
    /\ "lookup_cn" \in Range(outcome.calls)
    /\ ~outcome.ok
    /\ outcome.err.type = "ZeroDivisionError"

(* C7, as claimed: each of lookup_ki, lookup_cn,                           *)
(* lookup_infiltration_factor, lookup_nlcd, is_bmp, is_built_type and      *)
(* make_precolumbian ends in an error that names the land use when the     *)
(* land use is absent from the reference tables.                           *)
C7_AllRaise ==
    (/\ pc = "done"
     /\ call.fn \in {"lookup_ki", "lookup_cn", "lookup_infiltration_factor",
                     "lookup_nlcd", "is_bmp", "is_built_type", "make_precolumbian"}
     /\ Unknown(call.land_use))
    => Names(outcome, call.land_use)

(* C7, amended: for a land use absent from the reference tables,           *)
(* lookup_ki, lookup_cn, lookup_infiltration_factor and lookup_nlcd end in *)
(* a KeyError that names the land use; is_bmp and is_built_type return     *)
(* False and make_precolumbian returns the land use unchanged.             *)
C7_LookupsRaise ==
    (pc = "done" /\ "land_use" \in DOMAIN call /\ Unknown(call.land_use))
    => /\ call.fn \in {"lookup_ki", "lookup_cn", "lookup_infiltration_factor",
                       "lookup_nlcd"}
          => Names(outcome, call.land_use) /\ outcome.err.type = "KeyError"
       /\ call.fn \in {"is_bmp", "is_built_type"}
          => outcome.ok /\ outcome.val = FALSE
       /\ call.fn = "make_precolumbian"
          => outcome.ok /\ outcome.val = call.land_use

C7_Witness ==
    /\ Returned("lookup_infiltration_factor")
    /\ call.land_use = Str("Moon")
    /\ outcome.err = [type |-> "KeyError", msg |-> <<"Unknown land use: ", "Moon">>]

(* C8: make_precolumbian is idempotent: applied to its own result it       *)
(* returns that result; in particular the baseline it projects to is left  *)
(* unchanged.                                                              *)
C8_Idempotent ==
    Returned("make_precolumbian")
    => /\ outcome.ok
       /\ make_precolumbian(outcome.val).val = outcome.val
       /\ call.land_use \in NON_NATURAL
          => make_precolumbian(outcome.val).val = Str("mixed_forest")

C8_Witness ==
    /\ Returned("make_precolumbian")
    /\ call.land_use = Str("Commercial")
    /\ outcome.ok
    /\ outcome.val = Str("mixed_forest")

(* C9, as claimed: for a non-BMP tile whose land use is a built type and   *)
(* a precipitation 0 < P <= 2, simulate_tile returns the Pitt runoff       *)
(* min(blend(P), P), the blend being that of the land use.                 *)

\* the runoff r is min(v, p), v being a value of the polynomials
IsPittMin(r, v, p) == IF BigLe(v, p) THEN BigEq(v, r) ELSE r = p

C9_PittRunoff ==
    (/\ Returned("simulate_tile")
     /\ WellFormed(call.tile_string)
     /\ LandUseOf(call.tile_string) \in BUILT_TYPES \ BMPS
     /\ ~call.pre_columbian
     /\ IsPair(call.parameters)
     /\ RLt(Zero, call.parameters.items[1])
     /\ RLe(call.parameters.items[1], Rat(2, 1)))
    => /\ outcome.ok
       /\ IsPittMin(outcome.val[1],
                    runoff_vals(call.parameters.items[1])[LandUseOf(call.tile_string)],
                    call.parameters.items[1])

(* C10: with the flag set and an explicit (P, ET) pair, a tile S:L with L  *)
(* outside {Water, WoodyWetland, HerbaceousWetland} has the outcome of the *)
(* tile S:MixedForest without the flag; for L inside the set the flag      *)
(* changes nothing.                                                        *)
C10_ReplacedFirst ==
    (/\ Returned("simulate_tile")
     /\ WellFormed(call.tile_string)
     /\ IsPair(call.parameters)
     /\ call.pre_columbian)
    => IF LandUseOf(call.tile_string) \notin
             {Str("Water"), Str("WoodyWetland"), Str("HerbaceousWetland")}
       THEN SameOutcome(outcome,
                simulate_tile(call.parameters,
                              Tile(SoilOf(call.tile_string), Str("MixedForest")),
                              FALSE))
       ELSE SameOutcome(outcome,
                simulate_tile(call.parameters, call.tile_string, FALSE))

\* a BMP tile under the flag is simulated as mixed forest
C10_Witness ==
    /\ Returned("simulate_tile")
    /\ call.pre_columbian
    /\ call.tile_string = Tile(Str("a"), Str("RainGarden"))
    /\ IsPair(call.parameters)
    /\ "runoff_nrcs" \in Range(outcome.calls)
    /\ outcome.ok
    /\ RLt(Zero, outcome.val[1])

=============================================================================
